---------------------------- MODULE Spec2Model ----------------------------
(***************************************************************************)
(* Model of ulauncher/modes/extensions/ExtensionRunner.py: the supervisor  *)
(* of extension subprocesses.  The state is the table extension_procs, the *)
(* extension database (in memory and on disk), and the subprocesses with   *)
(* their asynchronous completions still in flight (exit notification,     *)
(* stderr line reads, termination timers).  Every callback the main loop   *)
(* dispatches is one action.  A subprocess object is kept for as long as   *)
(* the table or a pending callback refers to it.                           *)
(***************************************************************************)
EXTENDS Integers, Sequences, FiniteSets, TLC

VARIABLES extension_procs, db_mem, db_disk, subprocs, clock, scenario

vars == <<extension_procs, db_mem, db_disk, subprocs, clock, scenario>>

(***************************************************************************)
(* Bounds of the model.                                                    *)
(***************************************************************************)
MaxProcs == 2
MaxLines == 2

(***************************************************************************)
(* Program constants.  The clock counts whole seconds; the delay of the    *)
(* termination timer (0.5 s) is below its resolution, so a scheduled       *)
(* confirm_termination may be dispatched at any later step.  Times are the *)
(* instants at which the main loop dispatches events.                      *)
(***************************************************************************)
Times == {0, 1, 5}
InstantExitSeconds == 1
SIGKILL == 9
SIGTERM == 15

ExtIds == {"a", "b"}
NoProc == 0
NoInt == -1
ExitCodes == {0, 1}
TermSignals == {SIGKILL, SIGTERM}

(***************************************************************************)
(* Lines a child may write to stderr, as sequences of tokens, so that      *)
(* `in' and str.split("'") are computed on their content.                  *)
(***************************************************************************)
Quote == "'"
Marker == "ModuleNotFoundError"
MNFRequests == <<Marker, ": No module named ", Quote, "requests", Quote>>
MNFUlauncher == <<Marker, ": No module named ", Quote, "ulauncher", Quote>>
MNFUlauncherSub ==
    <<Marker, ": No module named ", Quote, "ulauncher", ".api", Quote>>
MNFEmptyName == <<Marker, ": No module named ", Quote, Quote>>
MNFNoQuote == <<Marker>>
OtherLine == <<"Traceback (most recent call last):">>
BlankLine == <<>>
StderrLines ==
    {MNFRequests, MNFUlauncher, MNFUlauncherSub, MNFEmptyName, MNFNoQuote,
     OtherLine, BlankLine}

(***************************************************************************)
(* The inputs of a run of the model: the ids the caller uses, the number   *)
(* of subprocess objects alive at a time, and what the children write and  *)
(* when events are dispatched.  A behaviour keeps one scenario.            *)
(***************************************************************************)
Scenario(ids, slots, lines, max_lines, times, codes, sigs) ==
    [ids |-> ids, slots |-> slots, lines |-> lines, max_lines |-> max_lines,
     times |-> times, codes |-> codes, sigs |-> sigs]

\* one extension at a time, every diagnosis of its exit
Diagnosis == Scenario({"a"}, 1, StderrLines, MaxLines, Times, ExitCodes, TermSignals)
\* an extension restarted while its earlier subprocess is still around
Restart == Scenario({"a"}, MaxProcs, {MNFRequests}, 1, {0}, {1}, {SIGTERM})
\* two extensions sharing the database
TwoExtensions == Scenario(ExtIds, 1, {}, 0, {0}, {1}, {SIGTERM})

Scenarios == {Diagnosis, Restart, TwoExtensions}

ManifestMessages == {<<"manifest error">>}

(***************************************************************************)
(* Messages of error records: the format string with its arguments.        *)
(***************************************************************************)
Msg(fmt, ext, n, uptime, text) ==
    [fmt |-> fmt, ext |-> ext, n |-> n, uptime |-> uptime, text |-> text]

EmptyMsg == Msg("", "", NoInt, NoInt, <<>>)
SignalMsg(ext_id, kill_signal) ==
    Msg("was terminated with signal", ext_id, kill_signal, NoInt, <<>>)
InstantMsg(ext_id, code) ==
    Msg("exited instantly with code", ext_id, code, NoInt, <<>>)
ExitedMsg(ext_id, code, uptime) ==
    Msg("exited with code after seconds", ext_id, code, uptime, <<>>)
TextMsg(text) == Msg("text", "", NoInt, NoInt, text)

EmptyRecord == [error_type |-> "", error_message |-> EmptyMsg]

(***************************************************************************)
(* str.split(sep) on a sequence of tokens: the list of the pieces between  *)
(* the occurrences of sep.                                                 *)
(***************************************************************************)
RECURSIVE SplitFrom(_, _, _)
SplitFrom(s, sep, cur) ==
    IF s = <<>> THEN <<cur>>
    ELSE IF Head(s) = sep THEN <<cur>> \o SplitFrom(Tail(s), sep, <<>>)
    ELSE SplitFrom(Tail(s), sep, Append(cur, Head(s)))

Split(s, sep) == SplitFrom(s, sep, <<>>)

Contains(s, tok) == \E i \in 1..Len(s) : s[i] = tok

(***************************************************************************)
(* "\n".join(proc.recent_errors) of a deque of at most one line.           *)
(***************************************************************************)
JoinLines(recent_errors) ==
    IF recent_errors = <<>> THEN <<>> ELSE recent_errors[1]

(***************************************************************************)
(* deque(maxlen=1).append(line)                                            *)
(***************************************************************************)
\* a deque without maxlen: every line is kept
DequeAppend_unbounded(recent_errors, line) == Append(recent_errors, line)

DequeAppend(recent_errors, line) == <<line>>

(***************************************************************************)
(* The supervisor's helpers.                                               *)
(***************************************************************************)
ExtensionProc(p, t_start) ==
    [subprocess |-> p, start_time |-> t_start, recent_errors |-> <<>>]

\* the value of extension_procs.get(ext_id) when ext_id is not a key
None == ExtensionProc(NoProc, NoInt)

\* is_running that misses the record of a running extension
is_running_never(ext_id) == FALSE

is_running(ext_id) == extension_procs[ext_id] # None

\* ext_db.get_record(ext_id).update(...): the record in memory only
RecordUpdate(db, ext_id, error_type, message) ==
    [db EXCEPT ![ext_id] = [error_type |-> error_type, error_message |-> message]]

\* ext_db.save(): every in-memory record is written to disk
DbSave(db) == db

\* set_extension_error: update the record, then save the database
set_extension_error(db, ext_id, error_type, message) ==
    /\ db_mem' = RecordUpdate(db, ext_id, error_type, message)
    /\ db_disk' = DbSave(db_mem')

\* an identifier that survives the exit of the process
get_identifier_kept(p) == subprocs[p].status # "free"

\* subprocess.get_identifier(): the pid, None once the process has exited
get_identifier(p) == subprocs[p].status = "alive"

\* a slot that holds no subprocess object
Free ==
    [ext_id |-> "", status |-> "free", code |-> NoInt, term_sig |-> NoInt,
     wrote |-> <<>>, nread |-> 0, reading |-> FALSE, eof |-> FALSE,
     failed_reads |-> 0,
     exit_pending |-> FALSE, sigterm |-> 0, sigkill |-> 0, timers |-> 0]

NewSubprocess(ext_id) ==
    [ext_id |-> ext_id, status |-> "alive", code |-> NoInt, term_sig |-> NoInt,
     wrote |-> <<>>, nread |-> 0, reading |-> FALSE, eof |-> FALSE,
     failed_reads |-> 0,
     exit_pending |-> TRUE, sigterm |-> 0, sigkill |-> 0, timers |-> 0]

\* proc.error_stream.read_line_async on the stream of subprocess p: a stream
\* with a read outstanding rejects a second one with a pending error
ReadLineAsync(sp, p) ==
    IF sp[p].reading
    THEN [sp EXCEPT ![p].failed_reads = @ + 1]
    ELSE [sp EXCEPT ![p].reading = TRUE]

\* a subprocess object that has exited and that neither the table nor a
\* pending callback refers to is released
Unreferenced(sp, procs, p) ==
    /\ sp[p].status \in {"exited", "signaled"}
    /\ ~sp[p].exit_pending
    /\ ~sp[p].reading
    /\ sp[p].failed_reads = 0
    /\ sp[p].timers = 0
    /\ \A i \in ExtIds : procs[i].subprocess # p

Release(sp, procs) ==
    [p \in 1..MaxProcs |-> IF Unreferenced(sp, procs, p) THEN Free ELSE sp[p]]

Procs == {p \in 1..MaxProcs : subprocs[p].status # "free"}
FreeSlots == (1..scenario.slots) \ Procs

Init ==
    /\ extension_procs = [i \in ExtIds |-> None]
    /\ db_mem = [i \in ExtIds |-> EmptyRecord]
    /\ db_disk = db_mem
    /\ subprocs = [p \in 1..MaxProcs |-> Free]
    /\ clock = 0
    /\ scenario \in Scenarios

(***************************************************************************)
(* run(ext_id, ext_path).  The manifest at ext_path validates ("ok"),      *)
(* raises ExtensionManifestError ("invalid") or raises                     *)
(* ExtensionIncompatibleWarning ("incompatible"); spawnv may raise.        *)
(***************************************************************************)
\* the except clause without its return: the error is recorded and the
\* extension is spawned all the same
run_manifest_error_no_return(db, ext_id, err) ==
    LET p == CHOOSE q \in FreeSlots : \A r \in FreeSlots : q <= r
    IN  /\ FreeSlots # {}
        /\ set_extension_error(db, ext_id, "Invalid", TextMsg(err))
        /\ extension_procs' =
             [extension_procs EXCEPT ![ext_id] = ExtensionProc(p, clock)]
        /\ subprocs' = ReadLineAsync([subprocs EXCEPT ![p] = NewSubprocess(ext_id)], p)
        /\ UNCHANGED <<clock, scenario>>

\* except ExtensionManifestError as err
run_manifest_error(db, ext_id, err) ==
    /\ set_extension_error(db, ext_id, "Invalid", TextMsg(err))
    /\ UNCHANGED <<extension_procs, subprocs, clock, scenario>>

\* except ExtensionIncompatibleWarning as err
run_incompatible(db, ext_id, err) ==
    /\ set_extension_error(db, ext_id, "Incompatible", TextMsg(err))
    /\ UNCHANGED <<extension_procs, subprocs, clock, scenario>>

\* spawn, register the record, attach the exit and the stderr listener
run_spawn(db, ext_id, spawn_ok) ==
    LET p == CHOOSE q \in FreeSlots : \A r \in FreeSlots : q <= r
    IN  /\ FreeSlots # {}
        /\ db_mem' = db
        /\ IF spawn_ok
           THEN /\ extension_procs' =
                     [extension_procs EXCEPT ![ext_id] = ExtensionProc(p, clock)]
                /\ subprocs' =
                     ReadLineAsync([subprocs EXCEPT ![p] = NewSubprocess(ext_id)], p)
           ELSE /\ UNCHANGED <<extension_procs, subprocs>>
        /\ UNCHANGED <<db_disk, clock, scenario>>

\* run without the is_running test
run_unguarded(ext_id, manifest, err, spawn_ok) ==
    LET reset == RecordUpdate(db_mem, ext_id, "", EmptyMsg)
    IN  CASE manifest = "invalid" -> run_manifest_error(reset, ext_id, err)
          [] manifest = "incompatible" -> run_incompatible(reset, ext_id, err)
          [] OTHER -> run_spawn(reset, ext_id, spawn_ok)

run(ext_id, manifest, err, spawn_ok) ==
    IF is_running(ext_id)
    THEN /\ UNCHANGED <<extension_procs, db_mem, db_disk, subprocs, clock, scenario>>
    ELSE LET reset == RecordUpdate(db_mem, ext_id, "", EmptyMsg)
         IN  CASE manifest = "invalid" -> run_manifest_error(reset, ext_id, err)
               [] manifest = "incompatible" -> run_incompatible(reset, ext_id, err)
               [] OTHER -> run_spawn(reset, ext_id, spawn_ok)

(***************************************************************************)
(* handle_stderr: the completion of the read outstanding on the error      *)
(* stream of subprocess p.  The read yields the next unread line, or       *)
(* nothing (end of stream) once the child is gone and every line is read;  *)
(* eof records that the stream has reported its end.                       *)
(***************************************************************************)
Truthy(line) == line # <<>>

handle_stderr(p) ==
    LET sub == subprocs[p]
        ext_id == sub.ext_id
        has_line == sub.nread < Len(sub.wrote)
        output == IF has_line THEN sub.wrote[sub.nread + 1] ELSE <<>>
        done == [subprocs EXCEPT ![p].reading = FALSE,
                                 ![p].nread = IF has_line THEN @ + 1 ELSE @,
                                 ![p].eof = ~has_line]
        proc == extension_procs[ext_id]
    IN  /\ sub.reading
        /\ has_line \/ sub.status # "alive"
        /\ IF proc = None
           THEN /\ subprocs' = Release(done, extension_procs)
                /\ UNCHANGED extension_procs
           ELSE /\ extension_procs' =
                     IF Truthy(output)
                     THEN [extension_procs EXCEPT ![ext_id].recent_errors =
                               DequeAppend(@, output)]
                     ELSE extension_procs
                /\ subprocs' = Release(ReadLineAsync(done, proc.subprocess),
                                        extension_procs')
        /\ UNCHANGED <<db_mem, db_disk, clock, scenario>>

\* the completion of a read the stream rejected: read_line_finish_utf8 raises
handle_stderr_error(p) ==
    /\ subprocs[p].failed_reads > 0
    /\ subprocs' = Release([subprocs EXCEPT ![p].failed_reads = @ - 1],
                            extension_procs)
    /\ UNCHANGED <<extension_procs, db_mem, db_disk, clock, scenario>>

(***************************************************************************)
(* handle_exit: the exit notification of subprocess p.                     *)
(***************************************************************************)
\* a pop that leaves the record in the table
Pop_keeps(procs, ext_id) == procs

Pop(procs, ext_id) == [procs EXCEPT ![ext_id] = None]

\* the threshold compared with <= instead of <
IsInstantExit_inclusive(uptime_seconds) == uptime_seconds <= InstantExitSeconds

IsInstantExit(uptime_seconds) == uptime_seconds < InstantExitSeconds

\* the classification of an instant exit from the retained stderr line:
\* the call of set_extension_error it makes, none, or the IndexError of [1]
InstantExitError(ext_id, code, lasterr) ==
    LET default_error_msg == InstantMsg(ext_id, code)
        parts == Split(lasterr, Quote)
        package_name == parts[2]
        Result(raises, sets, error_type, message) ==
            [raises |-> raises, sets |-> sets,
             error_type |-> error_type, message |-> message]
    IN  IF Contains(lasterr, Marker)
        THEN IF Len(parts) < 2 THEN Result(TRUE, FALSE, "", EmptyMsg)
             ELSE IF package_name = <<"ulauncher">>
                  THEN Result(FALSE, TRUE, "Incompatible", default_error_msg)
             ELSE IF package_name # <<>>
                  THEN Result(FALSE, TRUE, "MissingModule", TextMsg(package_name))
             ELSE Result(FALSE, FALSE, "", EmptyMsg)
        ELSE Result(FALSE, TRUE, "Terminated", default_error_msg)

\* an identity test that lets every notification through
Stale_never(proc, p) == FALSE

\* not proc or id(proc.subprocess) != id(subprocess)
Stale(proc, p) == proc = None \/ proc.subprocess # p

handle_exit(p) ==
    LET sub == subprocs[p]
        ext_id == sub.ext_id
        proc == extension_procs[ext_id]
        uptime_seconds == clock - proc.start_time
        res == InstantExitError(ext_id, sub.code, JoinLines(proc.recent_errors))
    IN  /\ sub.exit_pending
        /\ sub.status # "alive"
        /\ UNCHANGED <<clock, scenario>>
        /\ IF sub.status = "signaled" /\ proc # None
           THEN /\ set_extension_error(db_mem, ext_id, "Terminated",
                                       SignalMsg(ext_id, sub.term_sig))
                /\ extension_procs' = Pop(extension_procs, ext_id)
           ELSE IF Stale(proc, p)
           THEN /\ UNCHANGED <<extension_procs, db_mem, db_disk>>
           ELSE IF IsInstantExit(uptime_seconds)
           THEN IF res.raises
                THEN /\ UNCHANGED <<extension_procs, db_mem, db_disk>>
                ELSE /\ IF res.sets
                        THEN set_extension_error(db_mem, ext_id, res.error_type,
                                                 res.message)
                        ELSE UNCHANGED <<db_mem, db_disk>>
                     /\ extension_procs' = Pop(extension_procs, ext_id)
           ELSE /\ set_extension_error(db_mem, ext_id, "Exited",
                                       ExitedMsg(ext_id, sub.code, uptime_seconds))
                /\ extension_procs' = Pop(extension_procs, ext_id)
        /\ subprocs' = Release([subprocs EXCEPT ![p].exit_pending = FALSE],
                                extension_procs')

(***************************************************************************)
(* stop(ext_id) and the delayed check it schedules.                        *)
(***************************************************************************)
\* stop that clears the error record of an extension that is not running
stop_clears_error(ext_id) ==
    IF is_running(ext_id)
    THEN LET proc == extension_procs[ext_id]
         IN  /\ extension_procs' = Pop(extension_procs, ext_id)
             /\ subprocs' = Release([subprocs EXCEPT
                                         ![proc.subprocess].sigterm = @ + 1,
                                         ![proc.subprocess].timers = @ + 1],
                                     extension_procs')
             /\ UNCHANGED <<db_mem, db_disk, clock, scenario>>
    ELSE /\ set_extension_error(db_mem, ext_id, "", EmptyMsg)
         /\ UNCHANGED <<extension_procs, subprocs, clock, scenario>>

stop(ext_id) ==
    IF is_running(ext_id)
    THEN LET proc == extension_procs[ext_id]
         IN  /\ extension_procs' = Pop(extension_procs, ext_id)
             /\ subprocs' = Release([subprocs EXCEPT
                                         ![proc.subprocess].sigterm = @ + 1,
                                         ![proc.subprocess].timers = @ + 1],
                                     extension_procs')
             /\ UNCHANGED <<db_mem, db_disk, clock, scenario>>
    ELSE /\ UNCHANGED <<extension_procs, db_mem, db_disk, subprocs, clock, scenario>>

confirm_termination(p) ==
    /\ subprocs[p].timers > 0
    /\ IF get_identifier(p)
       THEN /\ subprocs' = [subprocs EXCEPT ![p].timers = @ - 1,
                                            ![p].sigkill = @ + 1]
       ELSE /\ subprocs' = Release([subprocs EXCEPT ![p].timers = @ - 1],
                                    extension_procs)
    /\ UNCHANGED <<extension_procs, db_mem, db_disk, clock, scenario>>

(***************************************************************************)
(* The environment: the children and the clock.                            *)
(***************************************************************************)
ChildWrite(p, line) ==
    /\ subprocs[p].status = "alive"
    /\ Len(subprocs[p].wrote) < scenario.max_lines
    /\ subprocs' = [subprocs EXCEPT ![p].wrote = Append(@, line)]
    /\ UNCHANGED <<extension_procs, db_mem, db_disk, clock, scenario>>

ChildExit(p, code) ==
    /\ subprocs[p].status = "alive"
    /\ subprocs' = Release([subprocs EXCEPT ![p].status = "exited",
                                             ![p].code = code], extension_procs)
    /\ UNCHANGED <<extension_procs, db_mem, db_disk, clock, scenario>>

\* death from a signal, sent by the supervisor or out of band
ChildSignaled(p, sig) ==
    /\ subprocs[p].status = "alive"
    /\ subprocs' = Release([subprocs EXCEPT ![p].status = "signaled",
                                             ![p].term_sig = sig], extension_procs)
    /\ UNCHANGED <<extension_procs, db_mem, db_disk, clock, scenario>>

Tick ==
    /\ \E t \in scenario.times : t > clock
    /\ clock' = CHOOSE t \in scenario.times :
                    t > clock /\ \A u \in scenario.times : u > clock => t <= u
    /\ UNCHANGED <<extension_procs, db_mem, db_disk, subprocs, scenario>>

Next ==
    \/ \E ext_id \in scenario.ids, manifest \in {"ok", "invalid", "incompatible"},
          err \in ManifestMessages, spawn_ok \in BOOLEAN :
          run(ext_id, manifest, err, spawn_ok)
    \/ \E ext_id \in scenario.ids : stop(ext_id)
    \/ \E p \in Procs : handle_stderr(p)
    \/ \E p \in Procs : handle_stderr_error(p)
    \/ \E p \in Procs : handle_exit(p)
    \/ \E p \in Procs : confirm_termination(p)
    \/ \E p \in Procs, line \in scenario.lines : ChildWrite(p, line)
    \/ \E p \in Procs, code \in scenario.codes : ChildExit(p, code)
    \/ \E p \in Procs, sig \in scenario.sigs : ChildSignaled(p, sig)
    \/ Tick

Spec == Init /\ [][Next]_vars

(***************************************************************************)
(* Properties.                                                             *)
(***************************************************************************)
Slots == 1..MaxProcs
Manifests == {"ok", "invalid", "incompatible"}
ErrorOf(db, ext_id) == db[ext_id].error_type
Alive(p) == subprocs[p].status = "alive"
Outstanding(ext_id) == {p \in Slots : Alive(p) /\ subprocs[p].ext_id = ext_id}
\* the subprocess p is the one recorded for its extension id
Current(p) ==
    /\ subprocs[p].status # "free"
    /\ extension_procs[subprocs[p].ext_id].subprocess = p
\* run(ext_id, ...) raises instead of returning: the spawn failed
RunRaises(ext_id, manifest, spawn_ok) ==
    ~is_running(ext_id) /\ manifest = "ok" /\ ~spawn_ok

\* C1: in the state in which a call run(id, path) has just returned, exactly
\* one of these holds: a ProcessRecord of id is registered, or the persisted
\* ErrorRecord of id has a non-empty error type.
C1_RecordXorPersistedError ==
    [][\A ext_id \in ExtIds, manifest \in Manifests, err \in ManifestMessages,
          spawn_ok \in BOOLEAN :
          \/ (extension_procs'[ext_id] # None) # (ErrorOf(db_disk', ext_id) # "")
          \/ RunRaises(ext_id, manifest, spawn_ok)
          \/ ~run(ext_id, manifest, err, spawn_ok)]_vars

\* C2: for a given extension id at most one spawned child is outstanding
\* (spawned and not yet exited) at any time.
C2_OneOutstandingChild ==
    \A ext_id \in ExtIds : Cardinality(Outstanding(ext_id)) <= 1

\* C2, as amended: a child of id is spawned only in a state in which no
\* ProcessRecord of id is registered, and it becomes the registered one; a
\* child whose record stop has removed may still be alive at that time.
C2_SpawnOnlyWhenNoRecord ==
    [][\A p \in Slots :
          (subprocs[p].status = "free" /\ subprocs'[p].status # "free")
          => /\ extension_procs[subprocs'[p].ext_id] = None
             /\ extension_procs'[subprocs'[p].ext_id].subprocess = p]_vars

\* two children of one id alive, the newer one registered
C2_Witness ==
    \E p, q \in Slots :
        /\ p # q
        /\ Alive(p) /\ Alive(q)
        /\ subprocs[p].ext_id = subprocs[q].ext_id
        /\ subprocs[p].sigterm = 1
        /\ Current(q)

\* C3: a process that wrote the one line "ModuleNotFoundError: No module
\* named 'requests'", exited with code 1 within a second and was not stopped
\* leaves the ErrorRecord MissingModule with the message "requests", whatever
\* the order of the stderr completion and the exit notification.
C3_Case(p) ==
    /\ subprocs[p].status = "exited"
    /\ subprocs[p].code = 1
    /\ subprocs[p].wrote = <<MNFRequests>>
    /\ subprocs[p].sigterm = 0
    /\ Current(p)
    /\ clock - extension_procs[subprocs[p].ext_id].start_time < InstantExitSeconds

C3_MissingModuleDiagnosed ==
    [][\A p \in Slots :
          (C3_Case(p) /\ handle_exit(p))
          => LET diagnosis == [error_type |-> "MissingModule",
                               error_message |-> TextMsg(<<"requests">>)]
             IN  /\ db_mem'[subprocs[p].ext_id] = diagnosis
                 /\ db_disk'[subprocs[p].ext_id] = diagnosis]_vars

\* C4: after every operation of the supervisor the persisted ErrorRecord of
\* every extension id equals the one in memory.
C4_PersistedEqualsMemory ==
    \A ext_id \in ExtIds : db_disk[ext_id] = db_mem[ext_id]

\* C5: is_running(id) is false in the state right after stop(id) returns,
\* before any exit notification or delayed check of the stopped process, and
\* it becomes true again only by a run(id).
C5_NotRunningAfterStop ==
    [][\A ext_id \in ExtIds :
          /\ stop(ext_id) => extension_procs'[ext_id] = None
          /\ (extension_procs[ext_id] = None /\ extension_procs'[ext_id] # None)
             => \E manifest \in Manifests, err \in ManifestMessages,
                   spawn_ok \in BOOLEAN : run(ext_id, manifest, err, spawn_ok)]_vars

\* a stopped child that is still alive, its exit and its check still pending
C5_Witness ==
    \E p \in Slots :
        /\ Alive(p)
        /\ subprocs[p].sigterm = 1
        /\ subprocs[p].timers = 1
        /\ subprocs[p].exit_pending
        /\ ~is_running(subprocs[p].ext_id)

\* C6: the delayed check sends SIGKILL exactly once to a process that has not
\* exited when it fires and sends nothing to one that has; a process is sent
\* at most one SIGTERM and at most one SIGKILL, and a SIGKILL only by the one
\* check that its stop scheduled.
C6_EscalatesOnce ==
    [][\A p \in Slots :
          /\ subprocs'[p].sigterm <= 1
          /\ subprocs'[p].timers + subprocs'[p].sigkill <= subprocs'[p].sigterm
          /\ confirm_termination(p)
             => IF Alive(p)
                THEN subprocs[p].sigkill = 0 /\ subprocs'[p].sigkill = 1
                ELSE subprocs[p].sigkill = 0 /\ subprocs'[p].sigkill = 0]_vars

\* the check has fired on a process still alive and has sent it SIGKILL
C6_Witness ==
    \E p \in Slots :
        /\ subprocs[p].sigterm = 1
        /\ subprocs[p].sigkill = 1
        /\ subprocs[p].timers = 0

\* C7: the exit notification of the process recorded for its id, which
\* exited with code c and is handled at an uptime of a second or more, sets
\* the ErrorRecord to Exited with a message holding c and the uptime, and
\* removes the record.
C7_ExitedAfterASecond ==
    [][\A p \in Slots :
          LET ext_id == subprocs[p].ext_id
              uptime == clock - extension_procs[ext_id].start_time
          IN  (/\ subprocs[p].status = "exited"
               /\ Current(p)
               /\ uptime >= InstantExitSeconds
               /\ handle_exit(p))
              => LET diagnosis ==
                         [error_type |-> "Exited",
                          error_message |-> ExitedMsg(ext_id, subprocs[p].code, uptime)]
                 IN  /\ db_mem'[ext_id] = diagnosis
                     /\ db_disk'[ext_id] = diagnosis
                     /\ extension_procs'[ext_id] = None]_vars

\* an exit with code 0 after five seconds has been diagnosed
C7_Witness ==
    \E ext_id \in ExtIds :
        /\ ErrorOf(db_disk, ext_id) = "Exited"
        /\ db_disk[ext_id].error_message.n = 0
        /\ db_disk[ext_id].error_message.uptime >= 5
        /\ ~is_running(ext_id)

\* C8: a run whose manifest fails validation spawns no process and registers
\* no record, and leaves the ErrorRecord Invalid with the failure's message;
\* a compatibility warning likewise leaves it Incompatible.
C8_InvalidNeverSpawns ==
    [][\A ext_id \in ExtIds, err \in ManifestMessages :
          LET Refused(error_type) ==
                  /\ subprocs' = subprocs
                  /\ extension_procs' = extension_procs
                  /\ extension_procs[ext_id] = None
                     => LET diagnosis == [error_type |-> error_type,
                                          error_message |-> TextMsg(err)]
                        IN  /\ db_mem'[ext_id] = diagnosis
                            /\ db_disk'[ext_id] = diagnosis
          IN  /\ run(ext_id, "invalid", err, TRUE) => Refused("Invalid")
              /\ run(ext_id, "incompatible", err, TRUE) => Refused("Incompatible")]_vars

\* a run has been refused for its manifest: Invalid persisted, nothing runs
C8_Witness ==
    \E ext_id \in ExtIds :
        /\ ErrorOf(db_disk, ext_id) = "Invalid"
        /\ ErrorOf(db_mem, ext_id) = "Invalid"
        /\ ~is_running(ext_id)
        /\ Procs = {}

\* C9: stop(id) on an id that is not running changes neither the table nor
\* the error store, sends no signal and schedules no check.
C9_StopNotRunningIsNoOp ==
    [][\A ext_id \in ExtIds :
          (extension_procs[ext_id] = None /\ stop(ext_id))
          => UNCHANGED <<extension_procs, db_mem, db_disk, subprocs>>]_vars

\* an id that is not running while it has an error recorded and a stopped
\* child of it is still alive: a stop would have something to change
C9_Witness ==
    \E p \in Slots :
        /\ Alive(p)
        /\ subprocs[p].sigterm = 1
        /\ ~is_running(subprocs[p].ext_id)
        /\ ErrorOf(db_disk, subprocs[p].ext_id) # ""

\* C10: run(id, path) on an id that is running spawns nothing, leaves the
\* record of id (handle, start time, retained line) and its listeners as they
\* are, and neither resets nor writes the ErrorRecord.
C10_RunRunningIsNoOp ==
    [][\A ext_id \in ExtIds, manifest \in Manifests, err \in ManifestMessages,
          spawn_ok \in BOOLEAN :
          (extension_procs[ext_id] # None /\ run(ext_id, manifest, err, spawn_ok))
          => UNCHANGED <<extension_procs, db_mem, db_disk, subprocs>>]_vars

\* a running id whose record retains a line: a run that spawned again
\* would replace the record
C10_Witness ==
    \E ext_id \in ExtIds :
        /\ is_running(ext_id)
        /\ extension_procs[ext_id].recent_errors # <<>>
        /\ Alive(extension_procs[ext_id].subprocess)

\* the extension id a subprocess was spawned for
ExtOf(p) == subprocs[p].ext_id
\* the read outstanding on the stream of p completes with no line
AtEndOfStream(p) == subprocs[p].nread = Len(subprocs[p].wrote)
\* the line the completion of the read outstanding on the stream of p yields
NextLine(p) ==
    IF AtEndOfStream(p) THEN <<>> ELSE subprocs[p].wrote[subprocs[p].nread + 1]

\* C11: an exit notification of a process that is not the one recorded for
\* its extension id (no record, or the record of a newer process) changes
\* neither the table of records nor the error store, whether the process
\* exited or died from a signal.
C11_StaleExitMutatesNothing ==
    [][\A p \in Slots :
          (~Current(p) /\ handle_exit(p))
          => UNCHANGED <<extension_procs, db_mem, db_disk>>]_vars

\* C12: the exit notification of a process that stop(id) has signalled never
\* writes an ErrorRecord, whatever run(id) calls came before it.
C12_StoppedExitWritesNoError ==
    [][\A p \in Slots :
          (subprocs[p].sigterm > 0 /\ handle_exit(p))
          => /\ db_mem' = db_mem
             /\ db_disk' = db_disk]_vars

\* C13: when the exit notification of the process recorded for its id has
\* been handled, the record of the id is removed and the ErrorRecord of the
\* id has a non-empty type, for every exit status, uptime and retained line.
C13_ExitAlwaysDiagnosed ==
    [][\A p \in Slots :
          (Current(p) /\ handle_exit(p))
          => /\ extension_procs'[ExtOf(p)] = None
             /\ ErrorOf(db_mem', ExtOf(p)) # ""]_vars

\* the rows of the classification table: the module name a line with the
\* marker quotes, and the record each row prescribes
C14_ModuleName(lasterr) == Split(lasterr, Quote)[2]
C14_InTable(signaled, uptime, lasterr) ==
    \/ signaled
    \/ uptime >= InstantExitSeconds
    \/ ~Contains(lasterr, Marker)
    \/ /\ Len(Split(lasterr, Quote)) >= 2
       /\ C14_ModuleName(lasterr) # <<>>
C14_Table(ext_id, signaled, term_sig, code, uptime, lasterr) ==
    LET Row(error_type, message) ==
            [error_type |-> error_type, error_message |-> message]
    IN  IF signaled THEN Row("Terminated", SignalMsg(ext_id, term_sig))
        ELSE IF uptime >= InstantExitSeconds
             THEN Row("Exited", ExitedMsg(ext_id, code, uptime))
        ELSE IF ~Contains(lasterr, Marker)
             THEN Row("Terminated", InstantMsg(ext_id, code))
        ELSE IF Head(C14_ModuleName(lasterr)) = "ulauncher"
             THEN Row("Incompatible", InstantMsg(ext_id, code))
        ELSE Row("MissingModule", TextMsg(C14_ModuleName(lasterr)))

\* C14: the ErrorRecord the exit notification of the recorded process writes
\* is the one the table gives for (signal, exit code, uptime, retained line):
\* signal -> Terminated naming the signal; uptime >= 1 s -> Exited; instant
\* exit with the marker and a module of the ulauncher namespace (the package
\* or a submodule) -> Incompatible; the marker and another module ->
\* MissingModule with its name; no marker -> Terminated.
C14_ClassificationTable ==
    [][\A p \in Slots :
          LET proc == extension_procs[ExtOf(p)]
              uptime == clock - proc.start_time
              lasterr == JoinLines(proc.recent_errors)
              signaled == subprocs[p].status = "signaled"
          IN  (/\ Current(p)
               /\ C14_InTable(signaled, uptime, lasterr)
               /\ handle_exit(p))
              => db_mem'[ExtOf(p)] =
                     C14_Table(ExtOf(p), signaled, subprocs[p].term_sig,
                               subprocs[p].code, uptime, lasterr)]_vars

\* C15: for a process that stop(id) has signalled, while no record of id is
\* registered, the exit notification, the stderr completions and the delayed
\* check change neither the table nor the error store, the stderr listener
\* issues no further read, and no completion raises.
C15_StoppedCompletionsAreNoOps ==
    [][\A p \in Slots :
          (subprocs[p].sigterm > 0 /\ extension_procs[ExtOf(p)] = None)
          => /\ (handle_exit(p) \/ handle_stderr(p) \/ confirm_termination(p))
                => UNCHANGED <<extension_procs, db_mem, db_disk>>
             /\ handle_stderr(p) => ~subprocs'[p].reading
             /\ ~handle_stderr_error(p)]_vars

\* C16: once a read on the stream of a process has completed with no line
\* because the stream is at its end, the stderr listener issues no further
\* read on that stream, even if the record is still in the table.
C16_NoReadAfterEndOfStream ==
    [][\A p \in Slots :
          (AtEndOfStream(p) /\ handle_stderr(p)) => ~subprocs'[p].reading]_vars

\* C17: once the ErrorRecord of an id holds a classification, neither the
\* record in memory nor the persisted one changes until run(id) is invoked
\* again: no exit notification, stderr completion, stop or delayed check
\* writes it a second time.
C17_ClassifiedOnce ==
    [][\A ext_id \in ExtIds :
          \/ ErrorOf(db_mem, ext_id) = ""
          \/ /\ db_mem'[ext_id] = db_mem[ext_id]
             /\ db_disk'[ext_id] = db_disk[ext_id]
          \/ \E manifest \in Manifests, err \in ManifestMessages,
                spawn_ok \in BOOLEAN : run(ext_id, manifest, err, spawn_ok)]_vars

\* the ErrorRecord of an id is classified while the exit notification of a
\* process of that id is still to come
C17_Witness ==
    \E p \in Slots :
        /\ subprocs[p].status \in {"exited", "signaled"}
        /\ subprocs[p].exit_pending
        /\ ErrorOf(db_mem, ExtOf(p)) \in {"Terminated", "Exited", "MissingModule"}
        /\ ~is_running(ExtOf(p))

C19_StderrBoundToOwnProcess ==
    [][\A p \in Slots :
          (subprocs[p].reading /\ ~Current(p) /\ handle_stderr(p))
          => /\ extension_procs' = extension_procs
             /\ \A q \in Slots \ {p} :
                   /\ subprocs'[q].reading = subprocs[q].reading
                   /\ subprocs'[q].failed_reads = subprocs[q].failed_reads]_vars

\* C20: every child that is alive and that no stop has signalled is the
\* process recorded for its extension id.
C20_AliveUnstoppedIsRecorded ==
    \A p \in Slots : (Alive(p) /\ subprocs[p].sigterm = 0) => Current(p)
=============================================================================
